---- MODULE Spec2Model ----
(***************************************************************************)
(* Model of the polyaxon client's GroupOverview component                  *)
(* (client/src/components/groups/groupOverview.tsx) and of the application *)
(* state aggregate (client/src/constants/types.ts).                        *)
(*                                                                         *)
(* A React element <T p=.../> is the record [type, props, children].  A    *)
(* JSX child `cond && <T/>` contributes the element when cond is truthy    *)
(* and nothing otherwise (React renders nothing for false).  An onSave     *)
(* closure is not a value of the model: the three Save actions are the     *)
(* bodies of the three closures.                                           *)
(***************************************************************************)
EXTENDS Integers, Sequences, FiniteSets, TLC

\* ---- bounds ------------------------------------------------------------
MaxExperiments == 1   \* counts range over 0..MaxExperiments, six outcome counts sum to at most this
MaxIter == 2          \* current_iteration ranges over 0..MaxIter
MaxUpdates == 2       \* at most this many editor save events per behaviour

VARIABLES store, group, tree, updates, saves

vars == <<store, group, tree, updates, saves>>

\* ---- constants/types.ts -------------------------------------------------
\* The field names of interface AppState.
AppStateKeys ==
  { "projects", "experiments", "experimentsParams", "groups", "jobs", "builds",
    "experimentJobs", "modal", "auth", "healthStatus", "users", "logs",
    "statuses", "metrics", "activityLogs", "searches", "chartViews",
    "codeReferences" }

\* AppEmptyState with an entry for modal as well.
AppEmptyState_WithModal ==
  [ projects          |-> "ProjectsEmptyState",
    experiments       |-> "ExperimentsEmptyState",
    experimentsParams |-> "ExperimentsParamsEmptyState",
    groups            |-> "GroupsEmptyState",
    jobs              |-> "JobsEmptyState",
    builds            |-> "BuildsEmptyState",
    experimentJobs    |-> "ExperimentJobsEmptyState",
    modal             |-> "ModalEmptyState",
    auth              |-> "TokenEmptyState",
    healthStatus      |-> "HealthStatusEmptyState",
    user              |-> "UserEmptyState",
    logs              |-> "",
    statuses          |-> "StatusEmptyState",
    metrics           |-> "MetricEmptyState",
    activityLogs      |-> "ActivityLogsEmptyState",
    searches          |-> "SearchesEmptyState",
    chartViews        |-> "ChartViewEmptyState",
    codeReferences    |-> "CodeReferenceEmptyState" ]

\* The object literal AppEmptyState; an imported default is named by its import.
AppEmptyState ==
  [ projects          |-> "ProjectsEmptyState",
    experiments       |-> "ExperimentsEmptyState",
    experimentsParams |-> "ExperimentsParamsEmptyState",
    groups            |-> "GroupsEmptyState",
    jobs              |-> "JobsEmptyState",
    builds            |-> "BuildsEmptyState",
    experimentJobs    |-> "ExperimentJobsEmptyState",
    auth              |-> "TokenEmptyState",
    healthStatus      |-> "HealthStatusEmptyState",
    user              |-> "UserEmptyState",
    logs              |-> "",
    statuses          |-> "StatusEmptyState",
    metrics           |-> "MetricEmptyState",
    activityLogs      |-> "ActivityLogsEmptyState",
    searches          |-> "SearchesEmptyState",
    chartViews        |-> "ChartViewEmptyState",
    codeReferences    |-> "CodeReferenceEmptyState" ]

\* obj[k] is not undefined: an object literal holds a value exactly at its own keys.
IsDefinedAt(obj, k) == k \in DOMAIN obj

\* ---- the group prop -----------------------------------------------------
Null == [nil |-> "null"]
Undefined == [nil |-> "undefined"]

\* lodash _.isNil: true for null and for undefined.
isNil(value) == value = Null \/ value = Undefined

CountFields ==
  << "num_experiments", "num_scheduled_experiments", "num_pending_experiments",
     "num_running_experiments", "num_succeeded_experiments",
     "num_failed_experiments", "num_stopped_experiments" >>

RECURSIVE SumFrom(_, _)
SumFrom(s, i) == IF i > Len(s) THEN 0 ELSE s[i] + SumFrom(s, i + 1)

\* <<total, scheduled, pending, running, succeeded, failed, stopped>>
CountVectors ==
  { c \in [1..7 -> 0..MaxExperiments] : SumFrom(c, 2) <= MaxExperiments }

Projects == {"p1", "p2"}
GroupIds == {"g7", "g8"}

\* The fields of GroupModel that render reads.
GroupRecord(project, id, iteration, tensorboard, c) ==
  [ id                         |-> id,
    project                    |-> project,
    description                |-> "about",
    readme                     |-> "# readme",
    tags                       |-> <<"t1", "t2">>,
    user                       |-> "admin",
    created_at                 |-> "2018-01-01",
    updated_at                 |-> "2018-01-02",
    started_at                 |-> "2018-01-03",
    finished_at                |-> "2018-01-04",
    last_status                |-> "running",
    search_algorithm           |-> "hyperband",
    concurrency                |-> 2,
    current_iteration          |-> iteration,
    num_experiments            |-> c[1],
    num_scheduled_experiments  |-> c[2],
    num_pending_experiments    |-> c[3],
    num_running_experiments    |-> c[4],
    num_succeeded_experiments  |-> c[5],
    num_failed_experiments     |-> c[6],
    num_stopped_experiments    |-> c[7],
    has_tensorboard            |-> tensorboard ]

GroupRecords ==
  { GroupRecord(p, i, it, tb, c) :
      p \in Projects, i \in GroupIds, it \in 0..MaxIter, tb \in BOOLEAN,
      c \in CountVectors }

\* Props.group: a GroupModel, or absent.
GroupProps == GroupRecords \cup {Null, Undefined}

\* ---- collaborators ------------------------------------------------------
\* emptyList.EmptyList(isCurrentUser, type, context): the placeholder it builds.
EmptyList(isCurrentUser, type, context) ==
  [ type     |-> "EmptyList",
    props    |-> [isCurrentUser |-> isCurrentUser, type |-> type, context |-> context],
    children |-> <<>> ]

\* constants/utils.getGroupTensorboardUrl(projectName, groupId).
getGroupTensorboardUrl(projectName, groupId) ==
  <<"tensorboard", projectName, "groups", groupId>>

\* ---- render -------------------------------------------------------------
El(type, props, children) == [type |-> type, props |-> props, children |-> children]

Meta(children) == El("div", [className |-> "meta"], children)

DescriptionEl(g) ==
  El("Description", [description |-> g.description, showEmpty |-> TRUE], <<>>)

OwnerMeta(g) ==
  Meta(<< El("UserMetaInfo", [user |-> g.user, inline |-> TRUE], <<>>),
          El("DatesMetaInfo",
             [createdAt |-> g.created_at, updatedAt |-> g.updated_at, inline |-> TRUE],
             <<>>) >>)

RunMeta(g) ==
  Meta(<< El("TaskRunMetaInfo",
             [startedAt |-> g.started_at, finishedAt |-> g.finished_at, inline |-> TRUE],
             <<>>),
          El("Status", [status |-> g.last_status], <<>>) >>)

MetaInfo(icon, name, value) ==
  El("MetaInfo", [icon |-> icon, name |-> name, value |-> value, inline |-> TRUE], <<>>)

\* SearchMeta showing the iteration widget for a zero iteration too.
SearchMeta_ShowZero(g) ==
  Meta(<< El("SearchAlgorithmMetaInfo",
             [searchAlgorithm |-> g.search_algorithm, inline |-> TRUE], <<>>),
          El("ConcurrencyMetaInfo",
             [concurrency |-> g.concurrency, inline |-> TRUE], <<>>) >>
       \o (IF g.current_iteration >= 0
           THEN << MetaInfo("fa-refresh", "Iteration", g.current_iteration) >>
           ELSE << >>))

SearchMeta(g) ==
  Meta(<< El("SearchAlgorithmMetaInfo",
             [searchAlgorithm |-> g.search_algorithm, inline |-> TRUE], <<>>),
          El("ConcurrencyMetaInfo",
             [concurrency |-> g.concurrency, inline |-> TRUE], <<>>) >>
       \o (IF g.current_iteration > 0
           THEN << MetaInfo("fa-refresh", "Iteration", g.current_iteration) >>
           ELSE << >>))

\* CountsMeta showing the sum of the six outcome counts as the total.
CountsMeta_SummedTotal(g) ==
  Meta(<< El("ExperimentCountMetaInfo",
             [count |-> g.num_scheduled_experiments + g.num_pending_experiments
                          + g.num_running_experiments + g.num_succeeded_experiments
                          + g.num_failed_experiments + g.num_stopped_experiments,
              inline |-> TRUE], <<>>),
          MetaInfo("fa-hourglass-1", "Scheduled", g.num_scheduled_experiments),
          MetaInfo("fa-hourglass-end", "Pending", g.num_pending_experiments),
          MetaInfo("fa-bolt", "Running", g.num_running_experiments),
          MetaInfo("fa-check", "Succeeded", g.num_succeeded_experiments),
          MetaInfo("fa-close", "Failed", g.num_failed_experiments),
          MetaInfo("fa-stop", "Stopped", g.num_stopped_experiments) >>)

CountsMeta(g) ==
  Meta(<< El("ExperimentCountMetaInfo",
             [count |-> g.num_experiments, inline |-> TRUE], <<>>),
          MetaInfo("fa-hourglass-1", "Scheduled", g.num_scheduled_experiments),
          MetaInfo("fa-hourglass-end", "Pending", g.num_pending_experiments),
          MetaInfo("fa-bolt", "Running", g.num_running_experiments),
          MetaInfo("fa-check", "Succeeded", g.num_succeeded_experiments),
          MetaInfo("fa-close", "Failed", g.num_failed_experiments),
          MetaInfo("fa-stop", "Stopped", g.num_stopped_experiments) >>)

\* DashboardMeta passing the identifiers to the URL builder in the wrong order.
DashboardMeta_SwappedArgs(g) ==
  IF g.has_tensorboard
  THEN << Meta(<< El("span", [className |-> "meta-info meta-dashboard"],
                     << El("i", [className |-> "fa fa-link icon"], <<>>),
                        El("a",
                           [href |-> getGroupTensorboardUrl(g.id, g.project),
                            className |-> "title-link"],
                           <<>>) >>) >>) >>
  ELSE << >>

DashboardMeta(g) ==
  IF g.has_tensorboard
  THEN << Meta(<< El("span", [className |-> "meta-info meta-dashboard"],
                     << El("i", [className |-> "fa fa-link icon"], <<>>),
                        El("a",
                           [href |-> getGroupTensorboardUrl(g.project, g.id),
                            className |-> "title-link"],
                           <<>>) >>) >>) >>
  ELSE << >>

TagsEl(g) == El("Tags", [tags |-> g.tags], <<>>)

MDEditorEl(g) == El("MDEditor", [content |-> g.readme], <<>>)

\* render with the two labels of the placeholder exchanged.
render_SwappedLabels(g) ==
  IF isNil(g)
  THEN EmptyList(FALSE, "group", "experiment group")
  ELSE El("div", [className |-> "entity-details"],
          << El("div", [className |-> "row"],
                << El("div", [className |-> "col-md-12"],
                      << DescriptionEl(g), OwnerMeta(g), RunMeta(g),
                         SearchMeta(g), CountsMeta(g) >>
                      \o DashboardMeta(g)
                      \o << TagsEl(g), MDEditorEl(g) >>) >>) >>)

\* render with the Tensorboard link placed after the two editors.
render_LinkLast(g) ==
  IF isNil(g)
  THEN EmptyList(FALSE, "experiment group", "group")
  ELSE El("div", [className |-> "entity-details"],
          << El("div", [className |-> "row"],
                << El("div", [className |-> "col-md-12"],
                      << DescriptionEl(g), OwnerMeta(g), RunMeta(g),
                         SearchMeta(g), CountsMeta(g) >>
                      \o << TagsEl(g), MDEditorEl(g) >>
                      \o DashboardMeta(g)) >>) >>)

\* GroupOverview.render()
render(g) ==
  IF isNil(g)
  THEN EmptyList(FALSE, "experiment group", "group")
  ELSE El("div", [className |-> "entity-details"],
          << El("div", [className |-> "row"],
                << El("div", [className |-> "col-md-12"],
                      << DescriptionEl(g), OwnerMeta(g), RunMeta(g),
                         SearchMeta(g), CountsMeta(g) >>
                      \o DashboardMeta(g)
                      \o << TagsEl(g), MDEditorEl(g) >>) >>) >>)

\* ---- reading a rendered tree ---------------------------------------------
NotRendered == [type |-> "NotRendered"]

RECURSIVE Preorder(_)
RECURSIVE PreorderAll(_, _)
\* The elements of a tree in document order.
Preorder(e) == <<e>> \o PreorderAll(e.children, 1)
PreorderAll(es, i) ==
  IF i > Len(es) THEN <<>> ELSE Preorder(es[i]) \o PreorderAll(es, i + 1)

Elements(t) == IF t = NotRendered THEN <<>> ELSE Preorder(t)

HasElement(t, type) ==
  LET es == Elements(t) IN \E i \in 1..Len(es) : es[i].type = type

\* ---- operations ---------------------------------------------------------
DescriptionValues == {"hello", ""}
TagValues == {<<>>, <<"a", "b">>}
ReadmeValues == {"# notes", ""}

\* this.props.onUpdate(updateDict): the parent's callback receives the payload.
onUpdate(updateDict) == Append(updates, updateDict)

Init ==
  /\ store = AppEmptyState
  /\ group \in GroupProps
  /\ tree = NotRendered
  /\ updates = <<>>
  /\ saves = <<>>

\* The framework calls render().
Render ==
  /\ tree' = render(group)
  /\ UNCHANGED <<store, group, updates, saves>>

\* SaveDescription sending the description the group already has.
SaveDescription_Stale(description) ==
  /\ Len(saves) < MaxUpdates
  /\ HasElement(tree, "Description")
  /\ updates' = onUpdate([description |-> group.description])
  /\ saves' = Append(saves, [editor |-> "Description", value |-> description])
  /\ UNCHANGED <<store, group, tree>>

\* The Description editor calls its onSave prop.
SaveDescription(description) ==
  /\ Len(saves) < MaxUpdates
  /\ HasElement(tree, "Description")
  /\ updates' = onUpdate([description |-> description])
  /\ saves' = Append(saves, [editor |-> "Description", value |-> description])
  /\ UNCHANGED <<store, group, tree>>

\* SaveTags writing the new tags into the props as well.
SaveTags_MutatesProps(tags) ==
  /\ Len(saves) < MaxUpdates
  /\ HasElement(tree, "Tags")
  /\ updates' = onUpdate([tags |-> tags])
  /\ saves' = Append(saves, [editor |-> "Tags", value |-> tags])
  /\ group' = [group EXCEPT !.tags = tags]
  /\ UNCHANGED <<store, tree>>

\* The Tags editor calls its onSave prop.
SaveTags(tags) ==
  /\ Len(saves) < MaxUpdates
  /\ HasElement(tree, "Tags")
  /\ updates' = onUpdate([tags |-> tags])
  /\ saves' = Append(saves, [editor |-> "Tags", value |-> tags])
  /\ UNCHANGED <<store, group, tree>>

\* SaveReadme sending the text under the description key.
SaveReadme_WrongKey(readme) ==
  /\ Len(saves) < MaxUpdates
  /\ HasElement(tree, "MDEditor")
  /\ updates' = onUpdate([description |-> readme])
  /\ saves' = Append(saves, [editor |-> "MDEditor", value |-> readme])
  /\ UNCHANGED <<store, group, tree>>

\* The MDEditor calls its onSave prop.
SaveReadme(readme) ==
  /\ Len(saves) < MaxUpdates
  /\ HasElement(tree, "MDEditor")
  /\ updates' = onUpdate([readme |-> readme])
  /\ saves' = Append(saves, [editor |-> "MDEditor", value |-> readme])
  /\ UNCHANGED <<store, group, tree>>

Next ==
  \/ Render
  \/ \E description \in DescriptionValues : SaveDescription(description)
  \/ \E tags \in TagValues : SaveTags(tags)
  \/ \E readme \in ReadmeValues : SaveReadme(readme)

Spec == Init /\ [][Next]_vars

\* ---- reading the state for the properties --------------------------------
Rendered == tree # NotRendered

IsIterationWidget(e) == e.type = "MetaInfo" /\ e.props.name = "Iteration"

IsOutcomeWidget(e) ==
  \/ e.type = "ExperimentCountMetaInfo"
  \/ e.type = "MetaInfo" /\ e.props.name # "Iteration"

IsLink(e) == e.type = "a"

IsHtml(e) == e.type \in {"div", "span", "i"}

IsWidget(e) == ~IsHtml(e)

IsMandatory(e) == IsWidget(e) /\ ~IsLink(e) /\ ~IsIterationWidget(e)

IsEditorOrMeta(e) == e.type # "EmptyList"

Kind(e) == IF e.type = "MetaInfo" THEN e.props.name ELSE e.type

Kinds(es) == [i \in 1..Len(es) |-> Kind(es[i])]

OutcomeLabels ==
  << "Total", "Scheduled", "Pending", "Running", "Succeeded", "Failed", "Stopped" >>

OutcomeKinds ==
  << "ExperimentCountMetaInfo", "Scheduled", "Pending", "Running", "Succeeded",
     "Failed", "Stopped" >>

OutcomeSum(g) ==
  g.num_scheduled_experiments + g.num_pending_experiments
    + g.num_running_experiments + g.num_succeeded_experiments
    + g.num_failed_experiments + g.num_stopped_experiments

\* ---- C1 ------------------------------------------------------------------
\* C1: the default state aggregate has a defined value at every key that the
\* AppState type declares.
C1_EveryDeclaredKeyDefined == \A k \in AppStateKeys : IsDefinedAt(store, k)

\* ---- C2 ------------------------------------------------------------------
\* C2: for an absent group (null or undefined) render returns exactly
\* EmptyList(false, 'experiment group', 'group'), no editor or metadata widget
\* is in the tree, and onUpdate has not been called.
C2_AbsentGroupPlaceholder ==
  (isNil(group) /\ Rendered) =>
     /\ tree = EmptyList(FALSE, "experiment group", "group")
     /\ SelectSeq(Elements(tree), IsEditorOrMeta) = <<>>
     /\ updates = <<>>

C2_Witness == group = Undefined /\ Rendered

\* ---- C3 ------------------------------------------------------------------
\* C3: every save of a value v in the description editor is answered by exactly
\* one onUpdate call, whose payload is the record with the single key
\* description and the value v.
C3_DescriptionSavePayload ==
  /\ Len(updates) = Len(saves)
  /\ \A i \in 1..Len(saves) :
        saves[i].editor = "Description" =>
           /\ i <= Len(updates)
           /\ DOMAIN updates[i] = {"description"}
           /\ updates[i].description = saves[i].value

C3_Witness ==
  /\ ~isNil(group)
  /\ \E i \in 1..Len(saves) :
        saves[i].editor = "Description" /\ saves[i].value = "hello"

\* ---- C4 ------------------------------------------------------------------
\* C4: every save in the tag editor is answered by exactly one onUpdate call
\* with the single-key payload {tags: saved list}, and every save in the readme
\* editor by exactly one onUpdate call with the single-key payload
\* {readme: saved text}.
C4_TagsReadmeSavePayload ==
  /\ Len(updates) = Len(saves)
  /\ \A i \in 1..Len(saves) :
        /\ saves[i].editor = "Tags" =>
              /\ DOMAIN updates[i] = {"tags"}
              /\ updates[i].tags = saves[i].value
        /\ saves[i].editor = "MDEditor" =>
              /\ DOMAIN updates[i] = {"readme"}
              /\ updates[i].readme = saves[i].value

C4_Witness ==
  /\ Len(saves) = 2
  /\ saves[1].editor = "Tags" /\ saves[1].value = <<"a", "b">>
  /\ saves[2].editor = "MDEditor" /\ saves[2].value = "# notes"

\* ---- C5 ------------------------------------------------------------------
\* C5: in the tree of a non-absent group the iteration widget is present
\* exactly when current_iteration > 0, and when present it shows
\* current_iteration.
C5_IterationWidget ==
  (Rendered /\ ~isNil(group)) =>
     LET its == SelectSeq(Elements(tree), IsIterationWidget) IN
       /\ Len(its) = (IF group.current_iteration > 0 THEN 1 ELSE 0)
       /\ \A i \in 1..Len(its) : its[i].props.value = group.current_iteration

C5_Witness ==
  /\ Rendered /\ ~isNil(group)
  /\ group.current_iteration = MaxIter
  /\ SelectSeq(Elements(tree), IsIterationWidget) # <<>>

\* ---- C6 ------------------------------------------------------------------
\* C6: in the tree of a non-absent group the Tensorboard link is present
\* exactly when has_tensorboard is set, and its target is
\* getGroupTensorboardUrl(group.project, group.id), a function of the project
\* and group identifiers alone.
C6_DashboardLink ==
  (Rendered /\ ~isNil(group)) =>
     LET links == SelectSeq(Elements(tree), IsLink) IN
       /\ Len(links) = (IF group.has_tensorboard THEN 1 ELSE 0)
       /\ \A i \in 1..Len(links) :
             links[i].props.href = getGroupTensorboardUrl(group.project, group.id)

C6_Witness ==
  /\ Rendered /\ ~isNil(group)
  /\ group.has_tensorboard /\ group.project = "p1" /\ group.id = "g7"
  /\ SelectSeq(Elements(tree), IsLink) # <<>>

\* ---- C7 ------------------------------------------------------------------
\* C7: the tree of a non-absent group holds exactly seven outcome widgets, in
\* the order total, scheduled, pending, running, succeeded, failed, stopped,
\* each showing its own count field of the record, zero included; the total
\* shown is num_experiments.
C7_SevenOutcomeWidgets ==
  (Rendered /\ ~isNil(group)) =>
     LET ws == SelectSeq(Elements(tree), IsOutcomeWidget) IN
       /\ Len(ws) = 7
       /\ Kinds(ws) = OutcomeKinds
       /\ ws[1].props.count = group.num_experiments
       /\ \A i \in 2..7 :
             /\ ws[i].props.name = OutcomeLabels[i]
             /\ ws[i].props.value = group[CountFields[i]]

C7_Witness ==
  /\ Rendered /\ ~isNil(group)
  /\ group.num_failed_experiments = 0
  /\ group.num_running_experiments > 0
  /\ group.num_experiments # OutcomeSum(group)

\* ---- C8 ------------------------------------------------------------------
\* C8: no step of the view changes the group record, a step without a save
\* event makes no onUpdate call, and the number of onUpdate calls always
\* equals the number of save events.
C8_ViewNeverMutatesGroup ==
  /\ [](Len(updates) = Len(saves))
  /\ [][group' = group /\ (saves' = saves => updates' = updates)]_vars

C8_Witness == Rendered /\ ~isNil(group) /\ Len(saves) = MaxUpdates

C10_FixedOrderIndependentOptions ==
  (Rendered /\ ~isNil(group)) =>
     LET ws   == SelectSeq(Elements(tree), IsWidget)
         base == [group EXCEPT !.current_iteration = 0, !.has_tensorboard = FALSE]
     IN
       /\ Kinds(ws) =
            << "Description", "UserMetaInfo", "DatesMetaInfo", "TaskRunMetaInfo",
               "Status", "SearchAlgorithmMetaInfo", "ConcurrencyMetaInfo" >>
            \o (IF group.current_iteration > 0 THEN <<"Iteration">> ELSE <<>>)
            \o OutcomeKinds
            \o (IF group.has_tensorboard THEN <<"a">> ELSE <<>>)
            \o << "Tags", "MDEditor" >>
       /\ SelectSeq(ws, IsMandatory) = SelectSeq(Elements(render(base)), IsMandatory)

C10_Witness ==
  /\ Rendered /\ ~isNil(group)
  /\ group.current_iteration > 0 /\ ~group.has_tensorboard
  /\ SelectSeq(Elements(tree), IsIterationWidget) # <<>>
  /\ SelectSeq(Elements(tree), IsLink) = <<>>

\* The other three combinations of the two optional elements.
C10_BothPresent ==
  /\ SelectSeq(Elements(tree), IsIterationWidget) # <<>>
  /\ SelectSeq(Elements(tree), IsLink) # <<>>

C10_LinkOnly ==
  /\ Rendered /\ ~isNil(group)
  /\ SelectSeq(Elements(tree), IsIterationWidget) = <<>>
  /\ SelectSeq(Elements(tree), IsLink) # <<>>

C10_Neither ==
  /\ Rendered /\ ~isNil(group)
  /\ SelectSeq(Elements(tree), IsIterationWidget) = <<>>
  /\ SelectSeq(Elements(tree), IsLink) = <<>>
====
